---- MODULE Spec2Model ----
(***************************************************************************)
(* Model of the sinfonia-server audio engine: the controller thread        *)
(* (src/audio_engine/engine/mod.rs, engine/messaging.rs), the OpenAL       *)
(* backend's source pool (src/audio_engine/backends/alto.rs) and the HTTP  *)
(* facade's request/response exchange (src/api.rs).                        *)
(*                                                                         *)
(* Conventions                                                             *)
(*  - Volumes are integers in units of 0.05, so 1.0 is 20 and the fade     *)
(*    step 0.1 is 2; f32 rounding is not modelled.                         *)
(*  - Durations (next_play, delays, the elapsed time of a tick) are        *)
(*    integers in an abstract unit of the controller's clock.              *)
(*  - A random draw is a nondeterministic choice over the values           *)
(*    gen_range can return.                                                *)
(*  - Option<T> is a sequence: << >> is None and <<v>> is Some(v).         *)
(*  - Entity fields named n_* and pv_* are history variables recording     *)
(*    what the code did (backend calls, draws); no guard of the model      *)
(*    reads them.                                                          *)
(*  - The controller is single-threaded and suspends only in the poll of   *)
(*    the command channel, so one iteration of the loop of run (poll,      *)
(*    update of the entities, fade) is one step.                           *)
(***************************************************************************)
EXTENDS Integers, Sequences, FiniteSets, TLC

(***************************************************************************)
(* Bounds of the model                                                     *)
(***************************************************************************)
\* largest number of sources the mixer grants at init (the code asks for 32)
MaxSources == 1
\* largest value of a loop_count / repeat_count range used by the themes
MaxCount == 1
\* largest loop delay used by the themes, and largest elapsed time of a tick
MaxDelay == 1

(***************************************************************************)
(* Program constants                                                       *)
(***************************************************************************)
\* master_volume: 1.0 at construction
InitialMasterVolume == 20
\* fade_volume -= 0.1 / += 0.1 per tick
FadeDelta == 2

\* the history counters saturate here
CounterCap == MaxCount + 3

Sat(n) == IF n >= CounterCap THEN CounterCap ELSE n + 1

None == << >>
Some(v) == <<v>>

(***************************************************************************)
(* Themes offered to LoadTheme.  A Sound carries the fields that           *)
(* AudioEntity::update and the controller read.                            *)
(***************************************************************************)
Snd(name, file, enabled, trigger, forever, loops, repeats, ldelay) ==
    [name |-> name, file |-> file, enabled |-> enabled, trigger |-> trigger,
     loop_forever |-> forever, loop_count |-> loops, repeat_count |-> repeats,
     loop_delay |-> ldelay, repeat_delay |-> <<0, 0>>]

\* files the sample library knows, and those among them the decoder accepts
LibraryFiles == {"ok.ogg", "corrupt.ogg"}
DecodableFiles == {"ok.ogg"}

Themes ==
    << \* 1: the loop scenario: loop_count = (n, n), no repeats
       [name |-> "loops",
        sounds |-> << Snd("a", "ok.ogg", TRUE, FALSE, FALSE,
                          <<MaxCount, MaxCount>>, <<0, 0>>, <<0, 0>>) >>],
       \* 2: drawn loops and repeats, with a loop delay
       [name |-> "ranges",
        sounds |-> << Snd("a", "ok.ogg", TRUE, FALSE, FALSE,
                          <<0, MaxCount + 1>>, <<0, MaxCount + 1>>,
                          <<MaxDelay, MaxDelay>>) >>],
       \* 3: a sound that loops forever
       [name |-> "forever",
        sounds |-> << Snd("a", "ok.ogg", TRUE, FALSE, TRUE,
                          <<1, 1>>, <<0, 0>>, <<0, 0>>) >>],
       \* 4: an enabled triggered sound
       [name |-> "trigger",
        sounds |-> << Snd("a", "ok.ogg", TRUE, TRUE, FALSE,
                          <<0, 0>>, <<0, 0>>, <<0, 0>>) >>],
       \* 5: a disabled triggered sound, to be previewed
       [name |-> "preview",
        sounds |-> << Snd("b", "ok.ogg", FALSE, TRUE, FALSE,
                          <<0, 0>>, <<MaxCount, MaxCount>>, <<0, 0>>) >>],
       \* 6: two enabled sounds competing for the pool
       [name |-> "pair",
        sounds |-> << Snd("a", "ok.ogg", TRUE, FALSE, FALSE,
                          <<0, 0>>, <<0, 0>>, <<0, 0>>),
                      Snd("b", "ok.ogg", TRUE, FALSE, TRUE,
                          <<0, 0>>, <<0, 0>>, <<0, 0>>) >>],
       \* 7: a sample the library does not know
       [name |-> "missing",
        sounds |-> << Snd("a", "gone.ogg", TRUE, FALSE, FALSE,
                          <<0, 0>>, <<0, 0>>, <<0, 0>>) >>],
       \* 8: a sample the decoder rejects, after one that loads
       [name |-> "corrupt",
        sounds |-> << Snd("a", "ok.ogg", TRUE, FALSE, FALSE,
                          <<0, 0>>, <<0, 0>>, <<0, 0>>),
                      Snd("b", "corrupt.ogg", TRUE, FALSE, FALSE,
                          <<0, 0>>, <<0, 0>>, <<0, 0>>) >>],
       \* 9: an enabled sound that plays once beside an enabled triggered one
       [name |-> "mixed",
        sounds |-> << Snd("a", "ok.ogg", TRUE, FALSE, FALSE,
                          <<0, 0>>, <<0, 0>>, <<0, 0>>),
                      Snd("b", "ok.ogg", TRUE, TRUE, FALSE,
                          <<0, 0>>, <<0, 0>>, <<0, 0>>) >>] >>

ThemeIds == DOMAIN Themes

\* the values of SetVolume: -0.25, 0 and 0.25; the route takes any f32 and
\* the mixer is taken to accept every gain
VolumeChoices == {-5, 0, 5}

(***************************************************************************)
(* get_random_value: the values a draw from the range val can return       *)
(***************************************************************************)
get_random_value(val) ==
    IF val[1] = val[2] THEN {val[1]} ELSE val[1] .. (val[2] - 1)

(***************************************************************************)
(* The OpenAL backend.  A backend value be is [pool, st, gain]: pool is    *)
(* the set of source ids in OpenALBackend.sources (the free ones), st      *)
(* gives each created source its OpenAL state and gain is the context's    *)
(* gain.  An entity's source field is the id of the source it holds, 0     *)
(* for None.                                                               *)
(***************************************************************************)
SourceStates == {"Initial", "Playing", "Paused", "Stopped"}

\* alSourceStop leaves an Initial source Initial
Stopped(s) == IF s = "Initial" THEN "Initial" ELSE "Stopped"

\* OpenALBackend::get_source: any source left in the map, None when empty
get_source(be) == be.pool

\* free_source that resets the source and does not put it back
free_source_lost(be, id) == [be EXCEPT !.st[id] = Stopped(@)]

\* OpenALBackend::free_source after reset_source: the source is stopped and
\* put back into the map
free_source(be, id) ==
    [be EXCEPT !.pool = @ \cup {id}, !.st[id] = Stopped(@)]

\* OpenALEntityData::stop
ObjStop(e, be) ==
    IF e.source = 0
    THEN [e |-> e, be |-> be]
    ELSE [e |-> [e EXCEPT !.source = 0], be |-> free_source(be, e.source)]

\* OpenALEntityData::play: borrow a source when none is held, bind the
\* buffer when the source is Initial or Stopped, play; without a source the
\* failure is logged
ObjPlay(e, be) ==
    IF e.source # 0
    THEN {[e |-> e, be |-> [be EXCEPT !.st[e.source] = "Playing"]]}
    ELSE IF get_source(be) = {}
         THEN {[e |-> e, be |-> be]}
         ELSE {[e |-> [e EXCEPT !.source = id],
                be |-> [be EXCEPT !.pool = @ \ {id}, !.st[id] = "Playing"]]
               : id \in get_source(be)}

\* OpenALEntityData::pause: alSourcePause acts on a playing source only
ObjPause(e, be) ==
    IF e.source # 0 /\ be.st[e.source] = "Playing"
    THEN [be EXCEPT !.st[e.source] = "Paused"]
    ELSE be

\* OpenALEntityData::is_playing
ObjIsPlaying(e, be) == e.source # 0 /\ be.st[e.source] = "Playing"

\* set_volume, set_pitch, set_lowpass, set_highpass, set_reverb: each is
\* Err(NoSource) exactly when the entity holds no source
ObjNoSource(e) == e.source = 0

(***************************************************************************)
(* AudioEntity                                                             *)
(***************************************************************************)
EntityStates ==
    {"Virgin", "Preview", "PrepareRun", "WaitingForStart", "WaitingForTrigger",
     "Starting", "Playing", "Repeat", "Loop", "Finished", "Reset", "Dead"}

\* AudioEntity::new with AudioEntityParameters::new
NewEntity(sound) ==
    [sound |-> sound, source |-> 0,
     state |-> "Virgin", next_play |-> 0, repeats |-> 0, loops |-> 1,
     is_triggered |-> FALSE, is_preview |-> FALSE,
     \* history: play and stop calls since the last draw in Virgin, the
     \* loops and repeats last drawn, play calls since PreviewSound,
     \* whether the preview run was reset by a trigger, and whether the
     \* last play call logged "Failed to get source from backend!"; and
     \* the switches from Starting to Playing since the last draw in
     \* PrepareRun, whether PrepareRun was passed since Virgin, and
     \* whether play was ever called on the entity
     n_plays |-> 0, n_stops |-> 0, n_loops |-> 0, n_repeats |-> 0,
     pv_plays |-> 0, pv_reset |-> FALSE, no_source |-> FALSE,
     n_starts |-> 0, prepared |-> FALSE, ever_played |-> FALSE]

Outcome(e, be, err) == [e |-> e, be |-> be, err |-> err]

\* AudioEntity::stop
EntityStop(e, be) ==
    LET r == ObjStop(e, be)
    IN  [e |-> [r.e EXCEPT !.n_stops = Sat(@)], be |-> r.be]

\* AudioEntity::play
EntityPlay(e, be) ==
    {[e |-> [r.e EXCEPT !.n_plays = Sat(@),
                        !.pv_plays = IF e.is_preview THEN Sat(@) ELSE @,
                        !.no_source = (r.e.source = 0),
                        !.ever_played = TRUE],
      be |-> r.be] : r \in ObjPlay(e, be)}

\* Virgin that sends every sound with a trigger to WaitingForTrigger
UpdateVirginTriggerFirst(e, be) ==
    {Outcome([e EXCEPT !.next_play = p[1], !.loops = p[2],
                       !.state = IF e.sound.trigger
                                 THEN "WaitingForTrigger" ELSE "PrepareRun",
                       !.n_loops = p[2], !.n_plays = 0, !.n_stops = 0,
                       !.n_starts = 0, !.prepared = FALSE],
             be, FALSE)
     : p \in get_random_value(e.sound.loop_delay)
             \X get_random_value(e.sound.loop_count)}

UpdateVirgin(e, be) ==
    {Outcome([e EXCEPT !.next_play = p[1], !.loops = p[2],
                       !.state = IF e.sound.trigger /\ ~e.is_preview
                                 THEN "WaitingForTrigger" ELSE "PrepareRun",
                       !.n_loops = p[2], !.n_plays = 0, !.n_stops = 0,
                       !.n_starts = 0, !.prepared = FALSE],
             be, FALSE)
     : p \in get_random_value(e.sound.loop_delay)
             \X get_random_value(e.sound.loop_count)}

\* Preview that stops the source and goes on to Virgin in the same call
UpdatePreviewThrough(e, be) ==
    LET r == EntityStop(e, be)
    IN  {Outcome([r.e EXCEPT !.state = "Virgin"], r.be, FALSE)}

UpdatePreview(e, be) == {Outcome([e EXCEPT !.state = "Reset"], be, FALSE)}

UpdateReset(e, be) ==
    LET r == EntityStop(e, be)
    IN  {Outcome([r.e EXCEPT !.state = "Virgin"], r.be, FALSE)}

UpdateWaitingForTrigger(e, be) ==
    IF e.is_triggered
    THEN {Outcome([e EXCEPT !.state = "WaitingForStart",
                            !.is_triggered = FALSE], be, FALSE)}
    ELSE {Outcome(e, be, FALSE)}

UpdatePrepareRun(e, be) ==
    {Outcome([e EXCEPT !.repeats = r, !.n_repeats = r, !.n_starts = 0,
                       !.prepared = TRUE,
                       !.state = IF e.is_preview THEN "Starting"
                                 ELSE "WaitingForStart"], be, FALSE)
     : r \in get_random_value(e.sound.repeat_count)}

UpdateWaitingForStart(e, be, delta) ==
    LET np == IF e.next_play > 0
              THEN (IF e.next_play >= delta THEN e.next_play - delta ELSE 0)
              ELSE e.next_play
    IN  {Outcome([e EXCEPT !.next_play = np,
                           !.state = IF np = 0 THEN "Starting" ELSE @],
                 be, FALSE)}

\* play, then the calls on the source (at least set_reverb), which fail
\* with NoSource and leave update before the switch to Playing
UpdateStarting(e, be) ==
    {IF ObjNoSource(r.e)
     THEN Outcome(r.e, r.be, TRUE)
     ELSE Outcome([r.e EXCEPT !.state = "Playing", !.n_starts = Sat(@)],
                  r.be, FALSE)
     : r \in EntityPlay(e, be)}

UpdatePlaying(e, be) ==
    IF ObjNoSource(e)
    THEN {Outcome(e, be, TRUE)}
    ELSE IF ObjIsPlaying(e, be)
         THEN {Outcome(e, be, FALSE)}
         ELSE IF e.sound.trigger /\ e.is_triggered
              THEN LET r == EntityStop(e, be)
                   IN  {Outcome([r.e EXCEPT !.state = "Reset",
                                            !.is_triggered = FALSE,
                                            !.pv_reset = @ \/ e.is_preview],
                                r.be, FALSE)}
              ELSE {Outcome([e EXCEPT !.state = "Repeat"], be, FALSE)}

\* Repeat comparing repeats > 1: one repeat short
UpdateRepeatShort(e, be) ==
    IF e.repeats > 1
    THEN {Outcome([e EXCEPT !.repeats = @ - 1, !.next_play = d,
                            !.state = "WaitingForStart"], be, FALSE)
          : d \in get_random_value(e.sound.repeat_delay)}
    ELSE IF e.is_preview
         THEN {Outcome([e EXCEPT !.is_preview = FALSE, !.state = "Virgin"],
                       be, FALSE)}
         ELSE {Outcome([e EXCEPT !.state = "Loop"], be, FALSE)}

UpdateRepeat(e, be) ==
    IF e.repeats > 0
    THEN {Outcome([e EXCEPT !.repeats = @ - 1, !.next_play = d,
                            !.state = "WaitingForStart"], be, FALSE)
          : d \in get_random_value(e.sound.repeat_delay)}
    ELSE IF e.is_preview
         THEN {Outcome([e EXCEPT !.is_preview = FALSE, !.state = "Virgin"],
                       be, FALSE)}
         ELSE {Outcome([e EXCEPT !.state = "Loop"], be, FALSE)}

\* Loop comparing loops > 1: one iteration short
UpdateLoopShort(e, be) ==
    LET r == EntityStop(e, be)
    IN  IF r.e.loops > 1 \/ r.e.sound.loop_forever
        THEN {Outcome([r.e EXCEPT !.loops = IF r.e.sound.loop_forever
                                            THEN @ ELSE @ - 1,
                                  !.next_play = d,
                                  !.state = "PrepareRun"], r.be, FALSE)
              : d \in get_random_value(r.e.sound.loop_delay)}
        ELSE {Outcome([r.e EXCEPT !.state = "Finished"], r.be, FALSE)}

\* Loop without the loop_forever tests
UpdateLoopCounted(e, be) ==
    LET r == EntityStop(e, be)
    IN  IF r.e.loops > 0
        THEN {Outcome([r.e EXCEPT !.loops = @ - 1,
                                  !.next_play = d,
                                  !.state = "PrepareRun"], r.be, FALSE)
              : d \in get_random_value(r.e.sound.loop_delay)}
        ELSE {Outcome([r.e EXCEPT !.state = "Finished"], r.be, FALSE)}

UpdateLoop(e, be) ==
    LET r == EntityStop(e, be)
    IN  IF r.e.loops > 0 \/ r.e.sound.loop_forever
        THEN {Outcome([r.e EXCEPT !.loops = IF r.e.sound.loop_forever
                                            THEN @ ELSE @ - 1,
                                  !.next_play = d,
                                  !.state = "PrepareRun"], r.be, FALSE)
              : d \in get_random_value(r.e.sound.loop_delay)}
        ELSE {Outcome([r.e EXCEPT !.state = "Finished"], r.be, FALSE)}

\* Finished that ends every sound
UpdateFinishedDead(e, be) == {Outcome([e EXCEPT !.state = "Dead"], be, FALSE)}

UpdateFinished(e, be) ==
    {Outcome([e EXCEPT !.state = IF e.sound.trigger THEN "Reset" ELSE "Dead"],
             be, FALSE)}

\* Dead that starts the sound again
UpdateDeadRestarts(e, be) ==
    {Outcome([e EXCEPT !.state = "Virgin"], be, FALSE)}

UpdateDead(e, be) == {Outcome(e, be, FALSE)}

\* AudioEntity::update: the outcomes of one call
Update(e, be, delta) ==
    CASE e.state = "Virgin" -> UpdateVirgin(e, be)
      [] e.state = "Preview" -> UpdatePreview(e, be)
      [] e.state = "Reset" -> UpdateReset(e, be)
      [] e.state = "WaitingForTrigger" -> UpdateWaitingForTrigger(e, be)
      [] e.state = "PrepareRun" -> UpdatePrepareRun(e, be)
      [] e.state = "WaitingForStart" -> UpdateWaitingForStart(e, be, delta)
      [] e.state = "Starting" -> UpdateStarting(e, be)
      [] e.state = "Playing" -> UpdatePlaying(e, be)
      [] e.state = "Repeat" -> UpdateRepeat(e, be)
      [] e.state = "Loop" -> UpdateLoop(e, be)
      [] e.state = "Finished" -> UpdateFinished(e, be)
      [] e.state = "Dead" -> UpdateDead(e, be)

(***************************************************************************)
(* State                                                                   *)
(***************************************************************************)
VARIABLES
    \* AudioController
    receiver,            \* the command channel, oldest first
    sender,              \* the response channel, oldest first
    sound_handles,       \* name -> entity
    next_sound_handles,  \* Option of name -> entity
    fade_status, fade_volume, fade_direction, master_volume,
    playing, theme_loaded, theme,
    backend,             \* the OpenALBackend
    \* history: whether SetVolume was handled since the running fade began
    set_in_fade,
    \* "running" while run loops; "stopped" once it returned Ok, "failed"
    \* once it returned Err, "panicked" once it panicked
    pc,
    \* the facade: its handler threads, the holder of the response
    \* receiver's mutex (0: free), whether that mutex is poisoned, and
    \* whether the web service has returned
    thr, recv_lock, poisoned, web_down,
    \* the requests the clients make in this run
    menu,
    \* SamplesDB: the files under base_path, the rows of the table sample,
    \* and the HashMap samples of the SamplesDB that open returned last
    base_path, sample, samples,
    \* history: the id each path got with its first row, and the opens made
    first_id, n_open,
    \* the web service: the token it was started with, the request that has
    \* arrived and waits for a worker, and the answer to the last request
    token, request, http_response

vars == <<receiver, sender, sound_handles, next_sound_handles, fade_status,
          fade_volume, fade_direction, master_volume, playing, theme_loaded,
          theme, backend, set_in_fade, pc, thr, recv_lock, poisoned, web_down,
          menu, base_path, sample, samples, first_id, n_open, token,
          request, http_response>>

ctrl_vars == <<sound_handles, next_sound_handles, fade_status, fade_volume,
               fade_direction, master_volume, playing, theme_loaded, theme,
               backend, set_in_fade, pc>>
facade_vars == <<thr, recv_lock, poisoned, web_down, menu>>
db_vars == <<base_path, sample, samples, first_id, n_open>>
\* what the controller and the facade leave alone
http_vars == <<token, request, http_response>>
other_vars == <<db_vars, http_vars>>

\* the AudioController as a value
Self ==
    [sound_handles |-> sound_handles, next_sound_handles |-> next_sound_handles,
     fade_status |-> fade_status, fade_volume |-> fade_volume,
     fade_direction |-> fade_direction, master_volume |-> master_volume,
     playing |-> playing, theme_loaded |-> theme_loaded, theme |-> theme,
     backend |-> backend, set_in_fade |-> set_in_fade]

(***************************************************************************)
(* Commands and responses                                                  *)
(***************************************************************************)
\* a request, before a handler thread turns it into a command
Req(type, sound, id, value) ==
    [type |-> type, sound |-> sound, id |-> id, value |-> value]

\* the field from records the thread that sent the command
Cmd(r, from) ==
    [type |-> r.type, sound |-> r.sound, id |-> r.id, value |-> r.value,
     from |-> from]

\* The client sessions.  A run of the model serves one session: a number
\* of handler threads (the --threads option; 2 by default) and the
\* requests the clients make.  There are sessions that work with one
\* loadable theme (the first also tries two themes that fail to load), a
\* session that changes the volume while themes are loaded, and sessions whose
\* requests meet no loaded theme (status, library, drivers, failing loads,
\* unknown sounds).
Session(threads, requests) == [threads |-> threads, requests |-> requests]

Sessions ==
    { Session(1, {Req("LoadTheme", "", 1, 0), Req("Play", "", 0, 0),
                  Req("Pause", "", 0, 0), Req("LoadTheme", "", 7, 0),
                  Req("LoadTheme", "", 8, 0)}),
      Session(1, {Req("LoadTheme", "", 2, 0), Req("Play", "", 0, 0),
                  Req("GetStatus", "", 0, 0)}),
      Session(1, {Req("LoadTheme", "", 3, 0), Req("Play", "", 0, 0),
                  Req("PreviewSound", "a", 0, 0)}),
      Session(1, {Req("LoadTheme", "", 4, 0), Req("Play", "", 0, 0),
                  Req("Trigger", "a", 0, 0)}),
      Session(1, {Req("LoadTheme", "", 5, 0), Req("PreviewSound", "b", 0, 0),
                  Req("Trigger", "b", 0, 0)}),
      Session(1, {Req("LoadTheme", "", 6, 0), Req("Play", "", 0, 0)}),
      Session(1, {Req("LoadTheme", "", 9, 0), Req("Play", "", 0, 0),
                  Req("Trigger", "b", 0, 0)}),
      Session(1, {Req("LoadTheme", "", 1, 0), Req("Play", "", 0, 0),
                  Req("PreviewSound", "a", 0, 0)}),
      Session(1, {Req("LoadTheme", "", 1, 0), Req("LoadTheme", "", 5, 0),
                  Req("PreviewSound", "b", 0, 0), Req("Trigger", "b", 0, 0)}),
      Session(1, {Req("LoadTheme", "", i, 0) : i \in {1, 5, 7}}
                   \cup {Req("SetVolume", "", 0, v) : v \in VolumeChoices}),
      Session(1, {Req("LoadTheme", "", 1, 0), Req("LoadTheme", "", 5, 0),
                  Req("Play", "", 0, 0), Req("GetStatus", "", 0, 0)}),
      Session(2, {Req("LoadTheme", "", 1, 0), Req("Play", "", 0, 0),
                  Req("GetStatus", "", 0, 0)}),
      Session(2, {Req(ty, "", 0, 0) : ty \in {"Pause", "Play", "GetStatus",
                                              "GetSoundLibrary", "GetDriverList",
                                              "GetDriver", "SetDriver"}}
                   \cup {Req("LoadTheme", "", i, 0) : i \in {7, 8}}
                   \cup {Req(ty, "a", 0, 0) : ty \in {"PreviewSound", "Trigger"}}) }

\* the variant the route's send_message! accepts besides Error
Expected(type) ==
    CASE type = "GetStatus" -> "Status"
      [] type = "GetSoundLibrary" -> "SoundLibrary"
      [] OTHER -> "Success"

NoBody ==
    [playing |-> FALSE, theme_loaded |-> FALSE, theme |-> None,
     sounds_playing |-> {}, sounds_playing_next |-> {}, previewing |-> {}]

\* a response as a handler sends it
Sent(kind) == [kind |-> kind, body |-> NoBody]

\* the response in the channel; to records the thread whose command the
\* handler was serving
Response(r, to) == [kind |-> r.kind, to |-> to, body |-> r.body]

\* Duration::as_secs, the clock unit being half a second
as_secs(d) == d \div 2

(***************************************************************************)
(* The command handlers of messaging.rs.  Each takes the controller and    *)
(* gives the controller it leaves and the responses it sent.               *)
(***************************************************************************)
Result(c, sent) == [self |-> c, sent |-> sent]

\* the backend after pause() on every entity in state Playing;
\* AudioEntity::pause ignores its flag
RECURSIVE PauseAll(_, _, _, _)
PauseAll(flag, names, handles, be) ==
    IF names = {}
    THEN be
    ELSE LET n == CHOOSE x \in names : TRUE
         IN  PauseAll(flag, names \ {n}, handles,
                      IF handles[n].state = "Playing"
                      THEN ObjPause(handles[n], be) ELSE be)

\* handle_pause without the test of theme_loaded
handle_pause_always(c) ==
    Result([c EXCEPT !.backend = PauseAll(TRUE, DOMAIN c.sound_handles,
                                          c.sound_handles, @),
                     !.playing = FALSE],
           << Sent("Success") >>)

handle_pause(c) ==
    IF c.theme_loaded
    THEN Result([c EXCEPT !.backend = PauseAll(TRUE, DOMAIN c.sound_handles,
                                               c.sound_handles, @),
                          !.playing = FALSE],
                << Sent("Success") >>)
    ELSE Result(c, << Sent("Error") >>)

handle_play(c) ==
    IF c.theme_loaded
    THEN Result([c EXCEPT !.backend = PauseAll(FALSE, DOMAIN c.sound_handles,
                                               c.sound_handles, @),
                          !.playing = TRUE],
                << Sent("Success") >>)
    ELSE Result(c, << Sent("Error") >>)

handle_preview_sound(c, sound) ==
    IF sound \in DOMAIN c.sound_handles
    THEN Result([c EXCEPT !.sound_handles[sound] =
                              [@ EXCEPT !.is_preview = TRUE,
                                        !.state = "Preview",
                                        !.pv_plays = 0, !.pv_reset = FALSE]],
                << Sent("Success") >>)
    ELSE Result(c, << Sent("Error") >>)

\* HashMap::insert
Insert(handles, name, e) ==
    [n \in DOMAIN handles \cup {name} |-> IF n = name THEN e ELSE handles[n]]

EmptyMap == [n \in {} |-> 0]

\* the loop of handle_load_theme over theme.sounds: whether it ran to the
\* end, the entities built, and the responses sent on the way
RECURSIVE LoadSounds(_, _)
LoadSounds(sounds, handles) ==
    IF sounds = << >>
    THEN [ok |-> TRUE, handles |-> handles, sent |-> << >>]
    ELSE LET sound == Head(sounds)
         IN  IF sound.file \notin LibraryFiles
             THEN \* sample_id_by_path is None: send_error!, return Err
                  [ok |-> FALSE, handles |-> handles,
                   sent |-> << Sent("Error") >>]
             ELSE IF sound.file \notin DecodableFiles
                  THEN \* load_file is Err: send_response!(self), return Err
                       [ok |-> FALSE, handles |-> handles,
                        sent |-> << Sent("Success") >>]
                  ELSE LoadSounds(Tail(sounds),
                                  Insert(handles, sound.name, NewEntity(sound)))

\* handle_load_theme installing the entities as the current ones at once
handle_load_theme_at_once(c, th) ==
    LET r == LoadSounds(th.sounds, EmptyMap)
    IN  IF r.ok
        THEN Result([c EXCEPT !.sound_handles = r.handles,
                              !.theme = Some(th.name),
                              !.theme_loaded = TRUE],
                    << Sent("Success") >>)
        ELSE Result(c, r.sent)

\* handle_load_theme returning Err without a response
handle_load_theme_silent(c, th) ==
    LET r == LoadSounds(th.sounds, EmptyMap)
    IN  IF r.ok
        THEN Result([c EXCEPT !.next_sound_handles = Some(r.handles),
                              !.theme = Some(th.name),
                              !.theme_loaded = TRUE],
                    << Sent("Success") >>)
        ELSE Result(c, << >>)

\* handle_load_theme recording the theme before it loads the sounds
handle_load_theme_eager(c, th) ==
    LET r == LoadSounds(th.sounds, EmptyMap)
    IN  IF r.ok
        THEN Result([c EXCEPT !.next_sound_handles = Some(r.handles),
                              !.theme = Some(th.name),
                              !.theme_loaded = TRUE],
                    << Sent("Success") >>)
        ELSE Result([c EXCEPT !.theme = Some(th.name),
                              !.theme_loaded = TRUE], r.sent)

handle_load_theme(c, th) ==
    LET r == LoadSounds(th.sounds, EmptyMap)
    IN  IF r.ok
        THEN Result([c EXCEPT !.next_sound_handles = Some(r.handles),
                              !.theme = Some(th.name),
                              !.theme_loaded = TRUE],
                    << Sent("Success") >>)
        ELSE Result(c, r.sent)

\* handle_trigger that sets is_triggered instead of toggling it
handle_trigger_set(c, sound) ==
    IF sound \in DOMAIN c.sound_handles
    THEN Result([c EXCEPT !.sound_handles[sound].is_triggered = TRUE],
                << Sent("Success") >>)
    ELSE Result(c, << Sent("Error") >>)

\* handle_trigger looking the sound up among the pending entities first
handle_trigger_pending(c, sound) ==
    IF c.next_sound_handles # None
         /\ sound \in DOMAIN c.next_sound_handles[1]
    THEN Result([c EXCEPT !.next_sound_handles[1][sound].is_triggered = ~@],
                << Sent("Success") >>)
    ELSE IF sound \in DOMAIN c.sound_handles
         THEN Result([c EXCEPT !.sound_handles[sound].is_triggered = ~@],
                     << Sent("Success") >>)
         ELSE Result(c, << Sent("Error") >>)

handle_trigger(c, sound) ==
    IF sound \in DOMAIN c.sound_handles
    THEN Result([c EXCEPT !.sound_handles[sound].is_triggered = ~@],
                << Sent("Success") >>)
    ELSE Result(c, << Sent("Error") >>)

\* handle_get_status reporting next_play as it is, not in whole seconds
handle_get_status_raw(c) ==
    LET names == DOMAIN c.sound_handles
        next == {n \in names : c.sound_handles[n].state = "WaitingForStart"}
    IN  Result(c,
          << [kind |-> "Status",
              body |->
                [playing |-> c.playing, theme_loaded |-> c.theme_loaded,
                 theme |-> c.theme,
                 sounds_playing |->
                     {n \in names : c.sound_handles[n].state = "Playing"},
                 sounds_playing_next |->
                     {<<n, c.sound_handles[n].next_play>> : n \in next},
                 previewing |->
                     {n \in names : c.sound_handles[n].is_preview}]] >>)

handle_get_status(c) ==
    LET names == DOMAIN c.sound_handles
        next == {n \in names : c.sound_handles[n].state = "WaitingForStart"}
    IN  Result(c,
          << [kind |-> "Status",
              body |->
                [playing |-> c.playing, theme_loaded |-> c.theme_loaded,
                 theme |-> c.theme,
                 sounds_playing |->
                     {n \in names : c.sound_handles[n].state = "Playing"},
                 sounds_playing_next |->
                     {<<n, as_secs(c.sound_handles[n].next_play)>> : n \in next},
                 previewing |->
                     {n \in names : c.sound_handles[n].is_preview}]] >>)

handle_get_sound_library(c) == Result(c, << Sent("SoundLibrary") >>)

handle_volume(c, value) ==
    Result([c EXCEPT !.backend.gain = value, !.master_volume = value,
                     !.set_in_fade = TRUE],
           << Sent("Success") >>)

handle_get_driver_list(c) == Result(c, << Sent("DriverList") >>)

\* handle_get_driver answering with send_response!(self): Success
handle_get_driver_success(c) == Result(c, << Sent("Success") >>)

handle_get_driver(c) == Result(c, << Sent("Driver") >>)

handle_set_driver(c) == Result(c, << Sent("Success") >>)

(***************************************************************************)
(* AudioController::run: the update loop over sound_handles.values_mut()   *)
(***************************************************************************)
\* the orders in which a HashMap over the names can be iterated
Orders(names) ==
    {o \in [1 .. Cardinality(names) -> names] :
        \A i, j \in DOMAIN o : i # j => o[i] # o[j]}

\* the loop's test without self.playing
UpdatedWhilePaused(e, play) == e.is_preview \/ e.sound.enabled

\* whether the loop calls update on the entity
Updated(e, play) == e.is_preview \/ (play /\ e.sound.enabled)

RECURSIVE UpdateAll(_, _, _, _, _)

\* the loop leaving after the first entity of the iteration
UpdateAllFirst(order, handles, be, delta, play) ==
    IF order = << >>
    THEN {[handles |-> handles, be |-> be, err |-> FALSE]}
    ELSE LET n == Head(order)
         IN  IF Updated(handles[n], play)
             THEN {[handles |-> [handles EXCEPT ![n] = o.e],
                    be |-> o.be, err |-> o.err]
                   : o \in Update(handles[n], be, delta)}
             ELSE {[handles |-> handles, be |-> be, err |-> FALSE]}

\* the outcomes of the loop over the entities in the given order; the ?
\* on update leaves the loop, and run, at the first error
UpdateAll(order, handles, be, delta, play) ==
    IF order = << >>
    THEN {[handles |-> handles, be |-> be, err |-> FALSE]}
    ELSE LET n == Head(order)
         IN  IF Updated(handles[n], play)
             THEN UNION {
                    IF o.err
                    THEN {[handles |-> [handles EXCEPT ![n] = o.e],
                           be |-> o.be, err |-> TRUE]}
                    ELSE UpdateAll(Tail(order), [handles EXCEPT ![n] = o.e],
                                   o.be, delta, play)
                    : o \in Update(handles[n], be, delta)}
             ELSE UpdateAll(Tail(order), handles, be, delta, play)

(***************************************************************************)
(* AudioController::run: the global fade                                   *)
(***************************************************************************)
\* the backend after stop() on every drained entity
RECURSIVE StopAll(_, _, _)
StopAll(names, handles, be) ==
    IF names = {}
    THEN be
    ELSE LET n == CHOOSE x \in names : TRUE
         IN  StopAll(names \ {n}, handles, EntityStop(handles[n], be).be)

\* the Out branch installing the pending entities without stopping the
\* current ones
FadeOutNoStop(c) ==
    IF c.fade_volume - FadeDelta <= 0
    THEN LET stopped ==
                 [c EXCEPT !.fade_direction = "In", !.fade_volume = 0,
                           !.sound_handles = EmptyMap]
         IN  IF c.next_sound_handles = None
             THEN [self |-> stopped, panic |-> TRUE]
             ELSE [self |-> [stopped EXCEPT
                                !.sound_handles = c.next_sound_handles[1],
                                !.next_sound_handles = None,
                                !.backend.gain = 0],
                   panic |-> FALSE]
    ELSE [self |-> [c EXCEPT !.fade_volume = @ - FadeDelta,
                             !.backend.gain = c.fade_volume - FadeDelta],
          panic |-> FALSE]

\* a fade-out that stays at 0 and installs nothing
FadeOutHolds(c) ==
    IF c.fade_volume - FadeDelta <= 0
    THEN [self |-> [c EXCEPT !.fade_volume = 0, !.backend.gain = 0],
          panic |-> FALSE]
    ELSE [self |-> [c EXCEPT !.fade_volume = @ - FadeDelta,
                             !.backend.gain = c.fade_volume - FadeDelta],
          panic |-> FALSE]

\* FadeDirection::Out; the controller after it, and whether
\* next_sound_handles.take().unwrap() panicked
FadeOut(c) ==
    IF c.fade_volume - FadeDelta <= 0
    THEN LET stopped ==
                 [c EXCEPT !.fade_direction = "In", !.fade_volume = 0,
                           !.sound_handles = EmptyMap,
                           !.backend = StopAll(DOMAIN c.sound_handles,
                                               c.sound_handles, @)]
         IN  IF c.next_sound_handles = None
             THEN [self |-> stopped, panic |-> TRUE]
             ELSE [self |-> [stopped EXCEPT
                                !.sound_handles = c.next_sound_handles[1],
                                !.next_sound_handles = None,
                                !.backend.gain = 0],
                   panic |-> FALSE]
    ELSE [self |-> [c EXCEPT !.fade_volume = @ - FadeDelta,
                             !.backend.gain = c.fade_volume - FadeDelta],
          panic |-> FALSE]

\* the In branch ending at the volume of construction, not master_volume
FadeInFull(c) ==
    [self |-> [c EXCEPT !.fade_volume = @ + FadeDelta,
                        !.fade_status =
                            (c.fade_volume + FadeDelta < InitialMasterVolume),
                        !.backend.gain = c.fade_volume + FadeDelta],
     panic |-> FALSE]

\* FadeDirection::In
FadeIn(c) ==
    [self |-> [c EXCEPT !.fade_volume = @ + FadeDelta,
                        !.fade_status =
                            (c.fade_volume + FadeDelta < c.master_volume),
                        !.backend.gain = c.fade_volume + FadeDelta],
     panic |-> FALSE]

\* the fade block entered in every iteration
FadeAlways(c) ==
    LET s == IF c.fade_status
             THEN c
             ELSE [c EXCEPT !.fade_status = TRUE,
                            !.fade_direction = "Out",
                            !.fade_volume = c.master_volume,
                            !.set_in_fade = FALSE]
    IN  IF s.fade_direction = "Out" THEN FadeOut(s) ELSE FadeIn(s)

\* the fade block of run
Fade(c) ==
    IF c.next_sound_handles # None \/ c.fade_status
    THEN LET s == IF c.fade_status
                  THEN c
                  ELSE [c EXCEPT !.fade_status = TRUE,
                                 !.fade_direction = "Out",
                                 !.fade_volume = c.master_volume,
                                 !.set_in_fade = FALSE]
         IN  IF s.fade_direction = "Out" THEN FadeOut(s) ELSE FadeIn(s)
    ELSE [self |-> c, panic |-> FALSE]

\* one iteration of run whose loop condition never reads the quit flag
LoopBodyDeaf(c, quit) ==
    UNION {
      {IF u.err
       THEN [self |-> [c EXCEPT !.sound_handles = u.handles,
                                !.backend = u.be],
             pc |-> "failed"]
       ELSE LET f == Fade([c EXCEPT !.sound_handles = u.handles,
                                    !.backend = u.be])
            IN  [self |-> f.self,
                 pc |-> IF f.panic THEN "panicked"
                        ELSE "running"]
       : u \in UpdateAll(order, c.sound_handles, c.backend, delta, c.playing)}
      : <<delta, order>> \in (0 .. MaxDelay) \X Orders(DOMAIN c.sound_handles)}

(***************************************************************************)
(* AudioController::run: one iteration of the loop                         *)
(***************************************************************************)
\* what the iteration can leave, the message queue having left the
\* controller c and the flag quit
LoopBody(c, quit) ==
    UNION {
      {IF u.err
       THEN [self |-> [c EXCEPT !.sound_handles = u.handles,
                                !.backend = u.be],
             pc |-> "failed"]
       ELSE LET f == Fade([c EXCEPT !.sound_handles = u.handles,
                                    !.backend = u.be])
            IN  [self |-> f.self,
                 pc |-> IF f.panic THEN "panicked"
                        ELSE IF quit THEN "stopped" ELSE "running"]
       : u \in UpdateAll(order, c.sound_handles, c.backend, delta, c.playing)}
      : <<delta, order>> \in (0 .. MaxDelay) \X Orders(DOMAIN c.sound_handles)}

Becomes(o) ==
    /\ sound_handles' = o.self.sound_handles
    /\ next_sound_handles' = o.self.next_sound_handles
    /\ fade_status' = o.self.fade_status
    /\ fade_volume' = o.self.fade_volume
    /\ fade_direction' = o.self.fade_direction
    /\ master_volume' = o.self.master_volume
    /\ playing' = o.self.playing
    /\ theme_loaded' = o.self.theme_loaded
    /\ theme' = o.self.theme
    /\ backend' = o.self.backend
    /\ set_in_fade' = o.self.set_in_fade
    /\ pc' = o.pc

\* run_message_queue receives a command of the given type
Receives(type) ==
    /\ pc = "running"
    /\ receiver # << >>
    /\ Head(receiver).type = type

\* the handler returned r; the iteration runs to its end
Iteration(r, quit) ==
    /\ receiver' = Tail(receiver)
    /\ sender' = sender \o [i \in DOMAIN r.sent |->
                               Response(r.sent[i], Head(receiver).from)]
    /\ \E o \in LoopBody(r.self, quit) : Becomes(o)
    /\ UNCHANGED <<facade_vars, other_vars>>

\* recv_timeout returns Err: no command within the timeout
PollTimeout ==
    /\ pc = "running"
    /\ receiver = << >>
    /\ \E o \in LoopBody(Self, FALSE) : Becomes(o)
    /\ UNCHANGED <<receiver, sender, facade_vars, other_vars>>

Quit == Receives("Quit") /\ Iteration(Result(Self, << >>), TRUE)

Pause == Receives("Pause") /\ Iteration(handle_pause(Self), FALSE)

Play == Receives("Play") /\ Iteration(handle_play(Self), FALSE)

PreviewSound ==
    /\ Receives("PreviewSound")
    /\ Iteration(handle_preview_sound(Self, Head(receiver).sound), FALSE)

LoadTheme ==
    /\ Receives("LoadTheme")
    /\ Iteration(handle_load_theme(Self, Themes[Head(receiver).id]), FALSE)

Trigger ==
    /\ Receives("Trigger")
    /\ Iteration(handle_trigger(Self, Head(receiver).sound), FALSE)

GetStatus == Receives("GetStatus") /\ Iteration(handle_get_status(Self), FALSE)

GetSoundLibrary ==
    /\ Receives("GetSoundLibrary")
    /\ Iteration(handle_get_sound_library(Self), FALSE)

SetVolume ==
    /\ Receives("SetVolume")
    /\ Iteration(handle_volume(Self, Head(receiver).value), FALSE)

GetDriverList ==
    /\ Receives("GetDriverList")
    /\ Iteration(handle_get_driver_list(Self), FALSE)

GetDriver == Receives("GetDriver") /\ Iteration(handle_get_driver(Self), FALSE)

SetDriver == Receives("SetDriver") /\ Iteration(handle_set_driver(Self), FALSE)

(***************************************************************************)
(* The mixer: a playing source reaches the end of its buffer               *)
(***************************************************************************)
SourceEnds ==
    /\ \E id \in DOMAIN backend.st :
          /\ backend.st[id] = "Playing"
          /\ backend' = [backend EXCEPT !.st[id] = "Stopped"]
    /\ UNCHANGED <<receiver, sender, sound_handles, next_sound_handles,
                   fade_status, fade_volume, fade_direction, master_volume,
                   playing, theme_loaded, theme, set_in_fade, pc,
                   facade_vars, other_vars>>

(***************************************************************************)
(* The facade: send_message! in a handler thread, and main                 *)
(***************************************************************************)
\* $sender.lock().send($message): the guard is dropped with the statement
Send(t, r) ==
    IF pc = "running"
    THEN /\ receiver' = Append(receiver, Cmd(r, t))
         /\ thr' = [thr EXCEPT ![t] =
                       [pc |-> "sent", expect |-> Expected(r.type)]]
    ELSE \* the controller dropped its Receiver: send is Err
         /\ thr' = [thr EXCEPT ![t].pc = "panicked"]
         /\ UNCHANGED receiver

\* a handler thread takes a request of the session and sends its command
FacadeSend ==
    /\ ~web_down
    /\ \E t \in DOMAIN thr :
          /\ thr[t].pc = "idle"
          /\ \E r \in menu : Send(t, r)
    /\ UNCHANGED <<sender, ctrl_vars, recv_lock, poisoned, web_down, menu,
                   other_vars>>

\* $receiver.lock().expect(..)
FacadeLock ==
    /\ recv_lock = 0
    /\ \E t \in DOMAIN thr :
          /\ thr[t].pc = "sent"
          /\ IF poisoned
             THEN /\ thr' = [thr EXCEPT ![t].pc = "panicked"]
                  /\ UNCHANGED recv_lock
             ELSE /\ thr' = [thr EXCEPT ![t].pc = "locked"]
                  /\ recv_lock' = t
    /\ UNCHANGED <<receiver, sender, ctrl_vars, poisoned, web_down, menu,
                   other_vars>>

\* .recv().expect(..) and the match on the variant, the guard being held
\* to the end of the match
FacadeRecv ==
    /\ \E t \in DOMAIN thr :
          /\ thr[t].pc = "locked"
          /\ \/ /\ sender # << >>
                /\ sender' = Tail(sender)
                /\ IF Head(sender).kind \in {thr[t].expect, "Error"}
                   THEN /\ thr' = [thr EXCEPT ![t].pc = "idle"]
                        /\ UNCHANGED poisoned
                   ELSE \* panic!("Internal Error!")
                        /\ thr' = [thr EXCEPT ![t].pc = "panicked"]
                        /\ poisoned' = TRUE
             \/ \* the controller dropped its Sender: recv is Err
                /\ sender = << >>
                /\ pc # "running"
                /\ thr' = [thr EXCEPT ![t].pc = "panicked"]
                /\ poisoned' = TRUE
                /\ UNCHANGED sender
          /\ recv_lock' = 0
    /\ UNCHANGED <<receiver, ctrl_vars, web_down, menu, other_vars>>

\* main: the web service has returned; send Command::Quit
MainQuit ==
    /\ ~web_down
    /\ \A t \in DOMAIN thr : thr[t].pc \in {"idle", "panicked"}
    /\ web_down' = TRUE
    /\ receiver' = IF pc = "running"
                   THEN Append(receiver, Cmd(Req("Quit", "", 0, 0), 0))
                   ELSE receiver
    /\ UNCHANGED <<sender, ctrl_vars, thr, recv_lock, poisoned, menu,
                   other_vars>>

(***************************************************************************)
(* samplesdb/db.rs: the sample library                                     *)
(***************************************************************************)
\* opens of the database a run makes
MaxOpens == 2

File(path, extension) == [path |-> path, extension |-> extension]

\* the files that can lie under base_path; extension is Path::extension
Files ==
    { File("a.ogg", Some("ogg")), File("b.wav", Some("wav")),
      File("c.mp3", Some("mp3")), File("d.txt", Some("txt")),
      File("e", None) }

SUPPORTED_AUDIO_FILES == {"aiff", "flac", "midi", "ogg", "wav", "mp3"}

\* last_insert_rowid of an INTEGER PRIMARY KEY: one more than the largest
Rowid(rows) ==
    IF rows = {} THEN 1
    ELSE 1 + (CHOOSE m \in {r.id : r \in rows} :
                 \A r \in rows : r.id <= m)

\* add_sample that inserts without the SELECT (and a table without UNIQUE)
add_sample_blind(db, path) ==
    LET id == Rowid(db.sample)
    IN  [sample |-> db.sample \cup {[id |-> id, path |-> path]},
         samples |-> {x \in db.samples : x.id # id}
                        \cup {[id |-> id, path |-> path]}]

\* SELECT id ... WHERE path; or_else INSERT; samples.insert(id, sample)
add_sample(db, path) ==
    LET found == {r \in db.sample : r.path = path}
        id == IF found # {} THEN (CHOOSE r \in found : TRUE).id
              ELSE Rowid(db.sample)
    IN  [sample |-> db.sample \cup {[id |-> id, path |-> path]},
         samples |-> {x \in db.samples : x.id # id}
                        \cup {[id |-> id, path |-> path]}]

\* load_samples over the entries WalkDir yields, in the order walk
RECURSIVE load_samples(_, _)
load_samples(walk, db) ==
    IF walk = << >> THEN db
    ELSE LET entry == Head(walk)
             next ==
               IF /\ entry.extension # None
                  /\ entry.extension[1] \in SUPPORTED_AUDIO_FILES
               THEN add_sample(db, entry.path)
               ELSE db
         IN  load_samples(Tail(walk), next)

\* SamplesDB::open: a new SamplesDB over the database file
open ==
    /\ n_open < MaxOpens
    /\ \E walk \in Orders(base_path) :
          LET db == load_samples(walk, [sample |-> sample, samples |-> {}])
          IN  /\ sample' = db.sample
              /\ samples' = Some(db.samples)
              /\ first_id' =
                   [p \in DOMAIN first_id |->
                      IF first_id[p] # 0 \/ ~\E r \in db.sample : r.path = p
                      THEN first_id[p]
                      ELSE (CHOOSE r \in db.sample : r.path = p).id]
    /\ n_open' = n_open + 1
    /\ UNCHANGED <<base_path, receiver, sender, ctrl_vars, facade_vars,
                   http_vars>>

(***************************************************************************)
(* authorization.rs: the token middleware in front of the routes           *)
(***************************************************************************)
\* pieces a header value is made of, at most
MaxHeaderLen == 4

\* Header values and tokens are strings, written as sequences of pieces: a
\* piece is a space, a byte that is not visible ASCII, or a word of visible
\* characters without a space (no word is a concatenation of other pieces).
Space == " "
ObsText == "0xE9"
Pieces == {"Bearer", "Basic", "tok", "kot", Space, ObsText}
Strings == UNION {[1 .. k -> Pieces] : k \in 0 .. MaxHeaderLen}

\* the tokens the service can be started with
Tokens == {<<"tok">>, <<"kot">>}

\* the routes of the router, each with its method and its command
Routes ==
    { [path |-> "/play", method |-> "POST", command |-> "Play"],
      [path |-> "/pause", method |-> "POST", command |-> "Pause"],
      [path |-> "/status", method |-> "GET", command |-> "GetStatus"] }

\* the requests of the clients: a route, by its method or by OPTIONS, with
\* or without the header Authorization
Requests ==
    { [route |-> rt, method |-> m, authorization |-> a] :
        rt \in Routes, m \in {"GET", "POST", "OPTIONS"},
        a \in {None} \cup {Some(v) : v \in Strings} }

\* HeaderValue::to_str: Ok only if every byte is visible ASCII
to_str_ok(value) == \A i \in DOMAIN value : value[i] # ObsText

\* str::split(' '): the parts between the spaces, empty ones included
RECURSIVE split(_)
split(str) ==
    IF \A i \in DOMAIN str : str[i] # Space
    THEN << str >>
    ELSE LET i == CHOOSE j \in DOMAIN str :
                    str[j] = Space /\ \A k \in 1 .. (j - 1) : str[k] # Space
         IN  << SubSeq(str, 1, i - 1) >>
                \o split(SubSeq(str, i + 1, Len(str)))

\* TokenAuthorizationMiddleware::call: "service" when the request is passed
\* on to the wrapped service, "403" for HttpResponse::Forbidden, "panic"
\* when to_str().unwrap() panics
authorize(req, tok) ==
    IF req.authorization = None THEN "403"
    ELSE IF ~to_str_ok(req.authorization[1]) THEN "panic"
    ELSE LET token_parts == split(req.authorization[1])
         IN  IF \/ Len(token_parts) # 2
                \/ token_parts[1] # <<"Bearer">>
                \/ token_parts[2] # tok
             THEN "403"
             ELSE "service"

\* a client's request arrives at the web service
Arrive ==
    /\ ~web_down
    /\ request = None
    /\ \E req \in Requests :
          /\ req.method \in {req.route.method, "OPTIONS"}
          /\ request' = Some(req)
    /\ http_response' = ""
    /\ UNCHANGED <<token, receiver, sender, ctrl_vars, facade_vars, db_vars>>

\* a worker thread takes the request through the middleware and, when the
\* middleware lets it, into the router: cors_allow_all for OPTIONS, the
\* route's handler, which sends the command, otherwise
call ==
    /\ request # None
    /\ \E t \in DOMAIN thr :
          /\ thr[t].pc = "idle"
          /\ LET req == request[1]
                 verdict == authorize(req, token)
             IN  IF verdict # "service"
                 THEN /\ http_response' = verdict
                      /\ UNCHANGED <<receiver, thr>>
                 ELSE IF req.method = "OPTIONS"
                 THEN /\ http_response' = "200"
                      /\ UNCHANGED <<receiver, thr>>
                 ELSE /\ http_response' = "handler"
                      /\ Send(t, Req(req.route.command, "", 0, 0))
    /\ request' = None
    /\ UNCHANGED <<token, sender, ctrl_vars, recv_lock, poisoned, web_down,
                   menu, db_vars>>

(***************************************************************************)
(* Specifications                                                          *)
(***************************************************************************)
\* AudioController::new and OpenALBackend::init (which keeps the sources
\* the mixer grants, at least one), and the handler threads of a session
ControllerInit(sessions) ==
    /\ receiver = << >>
    /\ sender = << >>
    /\ sound_handles = EmptyMap
    /\ next_sound_handles = None
    /\ fade_status = FALSE
    /\ fade_direction = "Out"
    /\ fade_volume = 0
    /\ master_volume = InitialMasterVolume
    /\ playing = FALSE
    /\ theme_loaded = FALSE
    /\ theme = None
    /\ \E n \in 1 .. MaxSources :
          backend = [pool |-> 1 .. n, st |-> [i \in 1 .. n |-> "Initial"],
                     gain |-> InitialMasterVolume]
    /\ set_in_fade = FALSE
    /\ pc = "running"
    /\ recv_lock = 0
    /\ poisoned = FALSE
    /\ web_down = FALSE
    /\ \E s \in sessions :
          /\ menu = s.requests
          /\ thr = [t \in 1 .. s.threads |->
                       [pc |-> "idle", expect |-> "Success"]]

\* no sample database is open
NoLibrary ==
    /\ base_path = {}
    /\ sample = {}
    /\ samples = None
    /\ first_id = [p \in {f.path : f \in Files} |-> 0]
    /\ n_open = 0

\* the requests of a session are authorized ones
NoRequest ==
    /\ token \in {<<"tok">>}
    /\ request = None
    /\ http_response = ""

Init == ControllerInit(Sessions) /\ NoLibrary /\ NoRequest

Next ==
    \/ PollTimeout
    \/ Quit
    \/ Pause
    \/ Play
    \/ PreviewSound
    \/ LoadTheme
    \/ Trigger
    \/ GetStatus
    \/ GetSoundLibrary
    \/ SetVolume
    \/ GetDriverList
    \/ GetDriver
    \/ SetDriver
    \/ SourceEnds
    \/ FacadeSend
    \/ FacadeLock
    \/ FacadeRecv
    \/ MainQuit

Spec == Init /\ [][Next]_vars

\* the sample library alone: a library directory, opened again and again
InitDB ==
    /\ ControllerInit({Session(1, {})})
    /\ base_path \in SUBSET Files
    /\ sample = {}
    /\ samples = None
    /\ first_id = [p \in {f.path : f \in Files} |-> 0]
    /\ n_open = 0
    /\ NoRequest

NextDB == open

SpecDB == InitDB /\ [][NextDB]_vars

\* the web service behind the middleware, with one worker thread
InitHttp ==
    /\ ControllerInit({Session(1, {})})
    /\ NoLibrary
    /\ token \in Tokens
    /\ request = None
    /\ http_response = ""

NextHttp ==
    \/ Arrive
    \/ call
    \/ PollTimeout
    \/ Pause
    \/ Play
    \/ GetStatus
    \/ FacadeLock
    \/ FacadeRecv

SpecHttp == InitHttp /\ [][NextHttp]_vars

\* the controller under theme changes, with the fairness of its thread: run
\* is a loop whose recv_timeout returns after the timeout at the latest, so
\* an iteration that can be taken is taken
FadeSessions ==
    { Session(1, {Req("LoadTheme", "", i, 0) : i \in {1, 5, 7}}
                   \cup {Req("SetVolume", "", 0, v) : v \in VolumeChoices}),
      Session(1, {Req("LoadTheme", "", 1, 0), Req("LoadTheme", "", 5, 0),
                  Req("Play", "", 0, 0)}),
      Session(1, {Req("LoadTheme", "", 6, 0), Req("LoadTheme", "", 1, 0),
                  Req("Play", "", 0, 0)}) }

InitFade == ControllerInit(FadeSessions) /\ NoLibrary /\ NoRequest

RunIteration ==
    \/ PollTimeout
    \/ Quit
    \/ Play
    \/ LoadTheme
    \/ SetVolume

NextFade ==
    \/ RunIteration
    \/ SourceEnds
    \/ FacadeSend
    \/ FacadeLock
    \/ FacadeRecv
    \/ MainQuit

SpecFade == InitFade /\ [][NextFade]_vars /\ WF_vars(RunIteration)

(***************************************************************************)
(* Properties                                                              *)
(***************************************************************************)
\* the controller dequeues a command of the given type in this step
Dequeues(type) == Receives(type) /\ receiver' = Tail(receiver)

\* the names whose entity is the same object before and after the step
Kept == {n \in DOMAIN sound_handles \cap DOMAIN sound_handles' :
            sound_handles'[n].sound = sound_handles[n].sound}

\* C1: every step in which the controller dequeues a command other than
\* Quit appends exactly one response to the response channel, addressed to
\* the sender of that command, on the success and the failure paths alike;
\* so the responses are in the order of the commands.
C1_OneResponsePerCommand ==
    [][(pc = "running" /\ receiver # << >> /\ receiver' = Tail(receiver)
          /\ Head(receiver).type # "Quit")
       => /\ Len(sender') = Len(sender) + 1
          /\ SubSeq(sender', 1, Len(sender)) = sender
          /\ sender'[Len(sender')].to = Head(receiver).from]_vars

\* C1 witness: two commands of two threads were answered in their order,
\* the first on a failure path, before either response was received
C1_Witness ==
    /\ Len(sender) = 2
    /\ sender[1].to = 1 /\ sender[1].kind = "Error"
    /\ sender[2].to = 2 /\ sender[2].kind = "Status"
    /\ receiver = << >>

\* C2: a handler thread that receives a response receives the response to
\* its own command, whatever the other threads do.
C2_OwnResponse ==
    [][\A t \in DOMAIN thr :
          (thr[t].pc = "locked" /\ thr'[t].pc # "locked"
             /\ sender # << >> /\ sender' = Tail(sender))
          => Head(sender).to = t]_vars

\* C3: an error of an entity's update never ends the run loop: run never
\* returns Err.
C3_ErrorNeverTerminates == pc # "failed"

\* C4: in the step in which an entity's play finds the pool empty, the
\* entity still moves to Playing and the controller keeps running.
C4_StarvedStartContinues ==
    [][\A n \in Kept :
          (~sound_handles[n].no_source /\ sound_handles'[n].no_source)
          => (sound_handles'[n].state = "Playing" /\ pc' = "running")]_vars

\* the theme's samples are all in the library and all decodable
Loadable(th) ==
    \A i \in DOMAIN th.sounds :
        th.sounds[i].file \in LibraryFiles \cap DecodableFiles

\* C5: the response to LoadTheme is Success when every sample of the theme
\* was found and loaded, and Error otherwise.
C5_LoadThemeResponse ==
    [][Dequeues("LoadTheme")
       => sender'[Len(sender')].kind =
              IF Loadable(Themes[Head(receiver).id])
              THEN "Success" ELSE "Error"]_vars

\* C6: when Trigger sets is_triggered on an updated entity with a trigger
\* that is in Playing with its source playing, the tick of that iteration
\* stops the source and leaves the entity in Reset with is_triggered
\* cleared.
C6_TriggerCancels ==
    [][\A n \in Kept :
          (/\ Dequeues("Trigger") /\ Head(receiver).sound = n
           /\ Updated(sound_handles[n], playing)
           /\ sound_handles[n].sound.trigger
           /\ sound_handles[n].state = "Playing"
           /\ ObjIsPlaying(sound_handles[n], backend)
           /\ ~sound_handles[n].is_triggered)
          => /\ sound_handles'[n].state = "Reset"
             /\ sound_handles'[n].source = 0
             /\ ~sound_handles'[n].is_triggered]_vars

\* C7: when Play follows Pause, an enabled entity in Playing whose source
\* was paused is still in Playing after the iteration, holding the same
\* source, which plays again.
C7_PlayResumes ==
    [][\A n \in Kept :
          (/\ Dequeues("Play") /\ theme_loaded /\ ~playing
           /\ sound_handles[n].sound.enabled
           /\ sound_handles[n].state = "Playing"
           /\ sound_handles[n].source # 0
           /\ backend.st[sound_handles[n].source] = "Paused")
          => /\ sound_handles'[n].state = "Playing"
             /\ sound_handles'[n].source = sound_handles[n].source
             /\ backend'.st[sound_handles[n].source] = "Playing"]_vars

\* C8: once the preview of a disabled sound with a trigger is over
\* (is_preview is false again), the entity is in Virgin and the preview
\* made exactly 1 + repeats drawn play calls, whatever Trigger commands
\* arrived during the run.
C8_PreviewOneRun ==
    \A n \in DOMAIN sound_handles :
        LET e == sound_handles[n]
        IN  (~e.sound.enabled /\ e.sound.trigger /\ ~e.is_preview
               /\ e.pv_plays > 0)
            => (e.state = "Virgin" /\ e.pv_plays = 1 + e.n_repeats)

\* C9: an enabled sound without trigger and without loop_forever that is
\* Dead was stopped 1 + loops drawn times, once per Loop state, and, with
\* repeat_count (0,0), played 1 + loops drawn times.
C9_LoopIterations ==
    \A n \in DOMAIN sound_handles :
        LET e == sound_handles[n]
        IN  (e.sound.enabled /\ ~e.sound.trigger /\ ~e.sound.loop_forever
               /\ e.state = "Dead")
            => /\ e.n_stops = 1 + e.n_loops
               /\ e.sound.repeat_count = <<0, 0>> => e.n_plays = 1 + e.n_loops

\* C9 witness: the sound with loop_count (n, n), n > 0, is Dead after n + 1
\* plays and n + 1 stops
C9_Witness ==
    \E n \in DOMAIN sound_handles :
        LET e == sound_handles[n]
        IN  /\ e.sound.loop_count = <<MaxCount, MaxCount>>
            /\ e.sound.repeat_count = <<0, 0>>
            /\ e.sound.enabled /\ ~e.sound.trigger /\ ~e.sound.loop_forever
            /\ e.state = "Dead"
            /\ e.n_plays = MaxCount + 1 /\ e.n_stops = MaxCount + 1

\* C10: an entity whose sound has loop_forever is never in Finished or
\* Dead, and its loops counter, once drawn in Virgin, is never lowered.
C10_ForeverNeverFinishes ==
    /\ [](\A n \in DOMAIN sound_handles :
             sound_handles[n].sound.loop_forever
             => sound_handles[n].state \notin {"Finished", "Dead"})
    /\ [][\A n \in Kept :
             (/\ sound_handles[n].sound.loop_forever
              /\ sound_handles[n].state # "Virgin"
              /\ sound_handles'[n].state # "Virgin")
             => sound_handles'[n].loops >= sound_handles[n].loops]_vars

\* C10 witness: a loop_forever entity plays again after it went through
\* Loop twice
C10_Witness ==
    \E n \in DOMAIN sound_handles :
        LET e == sound_handles[n]
        IN  /\ e.sound.loop_forever
            /\ e.state = "Playing"
            /\ e.n_stops >= 2 /\ e.n_plays >= 3

\* C11: an entity in Loop whose run began in PrepareRun went from Starting
\* to Playing 1 + repeats drawn times since that draw, and such an entity
\* in Repeat has made all of these but the repeats still to come; with
\* repeat_count (0,0) that is once.
C11_RepeatAccounting ==
    \A n \in DOMAIN sound_handles :
        LET e == sound_handles[n]
        IN  e.prepared =>
              /\ e.state = "Loop" => e.n_starts = 1 + e.n_repeats
              /\ e.state = "Repeat" => e.n_starts + e.repeats = 1 + e.n_repeats
              /\ (e.state = "Loop" /\ e.sound.repeat_count = <<0, 0>>)
                    => e.n_starts = 1

\* C11 witness: an entity is in Loop after a run with a drawn repeat
C11_Witness ==
    \E n \in DOMAIN sound_handles :
        LET e == sound_handles[n]
        IN  /\ e.state = "Loop" /\ e.prepared
            /\ e.n_repeats = MaxCount
            /\ e.n_starts = MaxCount + 1

\* the entities LoadTheme builds for a theme
FreshEntities(th) ==
    [n \in {th.sounds[i].name : i \in DOMAIN th.sounds} |->
        NewEntity(th.sounds[CHOOSE i \in DOMAIN th.sounds :
                                th.sounds[i].name = n])]

\* the pending entities once the command of this step, if any, is handled
PendingAfterHandler ==
    IF Receives("LoadTheme") /\ receiver' = Tail(receiver)
         /\ Loadable(Themes[Head(receiver).id])
    THEN Some(FreshEntities(Themes[Head(receiver).id]))
    ELSE next_sound_handles

\* the fade-out of this step brings the fade volume to 0 or below
FadeOutEnds ==
    /\ (fade_status => fade_direction = "Out")
    /\ (IF fade_status THEN fade_volume ELSE master_volume') - FadeDelta <= 0

\* C12: handling a successful LoadTheme leaves the current entities in
\* place and puts the new ones in next_sound_handles; the current map is
\* replaced only in an iteration whose fade-out reaches 0, and there every
\* old entity is stopped (all sources are back in the pool, none playing),
\* the pending entities become the current ones and pending is cleared.
C12_SwapOnlyAtFadeOutEnd ==
    [][LET swapped == PendingAfterHandler # None /\ next_sound_handles' = None
       IN  /\ (pc = "running" /\ ~swapped)
                => /\ next_sound_handles' = PendingAfterHandler
                   /\ Kept = DOMAIN sound_handles
                   /\ DOMAIN sound_handles' = DOMAIN sound_handles
           /\ (pc = "running" /\ swapped)
                => /\ FadeOutEnds
                   /\ sound_handles' = PendingAfterHandler[1]
                   /\ fade_direction' = "In" /\ fade_volume' = 0
                   /\ backend'.pool = DOMAIN backend'.st
                   /\ \A id \in DOMAIN backend'.st :
                         backend'.st[id] \in {"Initial", "Stopped"}]_vars

\* C12 witness: the entities of a second theme were installed at the end
\* of the fade-out, and the source the old entity held is stopped and free
C12_Witness ==
    /\ theme = Some("preview")
    /\ DOMAIN sound_handles = {"b"}
    /\ next_sound_handles = None
    /\ fade_direction = "In" /\ fade_volume = 0
    /\ \E id \in backend.pool : backend.st[id] = "Stopped"

\* no source is held or sounding: every source is in the pool, stopped
AllIdle(be) ==
    /\ be.pool = DOMAIN be.st
    /\ \A id \in DOMAIN be.st : be.st[id] \in {"Initial", "Stopped"}

\* C13 as stated: after a theme change over entities that had played, no
\* per-entity call (here: stop) is made on an entity of the new set before
\* play is called on it.
C13_NoCallBeforePlay ==
    \A n \in DOMAIN sound_handles :
        (/\ ~sound_handles[n].ever_played
         /\ \E id \in DOMAIN backend.st : backend.st[id] = "Stopped")
        => sound_handles[n].n_stops = 0

\* C13 as amended: as long as play was not called on any current entity, no
\* source is held, playing or paused (the last command that reached a
\* source was the stop of the old entities), and the iteration that
\* installs the new entities leaves the context's gain at exactly 0.
C13_QuietSwap ==
    /\ []((\A n \in DOMAIN sound_handles : ~sound_handles[n].ever_played)
            => AllIdle(backend))
    /\ [][(pc = "running" /\ PendingAfterHandler # None
             /\ next_sound_handles' = None)
          => backend'.gain = 0]_vars

\* C13 witness: a new theme was installed over one that had played, none
\* of its entities has played yet and the gain is 0
C13_Witness ==
    /\ theme = Some("preview")
    /\ DOMAIN sound_handles = {"b"}
    /\ ~sound_handles["b"].ever_played
    /\ backend.gain = 0
    /\ \E id \in DOMAIN backend.st : backend.st[id] = "Stopped"

\* C14: in a cross-fade during which no SetVolume is handled, every value
\* passed to the backend's master volume is at most the one before while
\* the fade goes out, starting from master_volume and reaching exactly 0,
\* and at least the one before while it comes in, and the value with which
\* the fade ends is master_volume.
C14_FadeTrajectory ==
    [][(/\ pc = "running" /\ pc' = "running" /\ ~set_in_fade'
        /\ (fade_status' \/ fade_status))
       => /\ backend'.gain = fade_volume'
          /\ (~fade_status /\ fade_direction' = "Out")
                => fade_volume' <= master_volume
          /\ (fade_status /\ fade_direction = "Out" /\ fade_direction' = "Out")
                => fade_volume' <= fade_volume
          /\ (fade_direction' = "In" /\ (~fade_status \/ fade_direction = "Out"))
                => fade_volume' = 0
          /\ (fade_status /\ fade_direction = "In")
                => fade_volume' >= fade_volume
          /\ (fade_status /\ ~fade_status')
                => fade_volume' = master_volume]_vars

\* C15: SetVolume{v} answers Success and sets master_volume and, in the
\* handler, the backend's master volume to v (which the iteration leaves at
\* v when no fade steps in it); and every step of a fade-in ends the fade
\* exactly when the fade volume has reached the master_volume of that
\* moment, so a SetVolume during the fade moves the target.
C15_SetVolume ==
    [][/\ Dequeues("SetVolume")
            => LET v == Head(receiver).value
               IN  /\ master_volume' = v
                   /\ sender'[Len(sender')].kind = "Success"
                   /\ handle_volume(Self, v).self.backend.gain = v
                   /\ (~fade_status /\ next_sound_handles = None)
                         => backend'.gain = v
       /\ (pc = "running" /\ fade_status /\ fade_direction = "In"
             /\ fade_volume' # fade_volume)
            => (fade_status' <=> fade_volume' < master_volume')]_vars

\* C15 witness: a fade-in that began with master_volume 1.0 ended early, at
\* the first value above the master_volume set during the fade
C15_Witness ==
    /\ ~fade_status /\ fade_direction = "In"
    /\ \E v \in VolumeChoices :
          /\ master_volume = v
          /\ fade_volume > v + FadeDelta
          /\ fade_volume < InitialMasterVolume
          /\ backend.gain = fade_volume

\* C16: Play and Pause answer Success and set playing to true and false
\* once a theme was loaded; before that they answer Error and leave playing
\* and the current and pending entities as they are.
C16_PlayPausePolicy ==
    [][\A ty \in {"Play", "Pause"} :
          Dequeues(ty)
          => IF theme_loaded
             THEN /\ sender'[Len(sender')].kind = "Success"
                  /\ playing' = (ty = "Play")
             ELSE /\ sender'[Len(sender')].kind = "Error"
                  /\ playing' = playing
                  /\ sound_handles' = sound_handles
                  /\ next_sound_handles' = next_sound_handles]_vars

\* C16 witness: Pause was accepted after Play: playing is false and an
\* entity in Playing has its source paused
C16_Witness ==
    /\ theme_loaded /\ ~playing
    /\ \E n \in DOMAIN sound_handles :
          /\ sound_handles[n].state = "Playing"
          /\ sound_handles[n].source # 0
          /\ backend.st[sound_handles[n].source] = "Paused"

\* the response variants the protocol allows for a command
Allowed(type) ==
    CASE type = "GetStatus" -> {"Status"}
      [] type = "GetSoundLibrary" -> {"SoundLibrary"}
      [] type = "GetDriverList" -> {"DriverList"}
      [] type = "GetDriver" -> {"Driver"}
      [] OTHER -> {"Success", "Error"}

\* C17: the response the controller sends for a command is of a variant
\* allowed for that command: Status, SoundLibrary, DriverList and Driver
\* for the four queries, Success or Error for every other command.
C17_AllowedVariant ==
    [][(pc = "running" /\ receiver # << >> /\ receiver' = Tail(receiver)
          /\ Head(receiver).type # "Quit")
       => sender'[Len(sender')].kind \in Allowed(Head(receiver).type)]_vars

\* C17 witness: a command was answered with Error and GetDriver with
\* Driver, both responses waiting in the channel
C17_Witness ==
    /\ Len(sender) = 2
    /\ sender[1].kind = "Error"
    /\ sender[2].kind = "Driver"

\* C18: a handler thread that, alone at work, receives the response to its
\* own command accepts its variant: it does not panic.
C18_NoInternalError ==
    [][\A t \in DOMAIN thr :
          (/\ thr[t].pc = "locked"
           /\ \A u \in DOMAIN thr \ {t} : thr[u].pc = "idle"
           /\ sender # << >> /\ sender' = Tail(sender)
           /\ Head(sender).to = t)
          => thr'[t].pc # "panicked"]_vars

\* whole seconds of a duration of the controller's clock, two units a second
WholeSeconds(d) == CHOOSE k \in 0 .. d : 2 * k <= d /\ d < 2 * (k + 1)

\* C19: the Status sent for GetStatus names in sounds_playing exactly the
\* current entities in Playing, in sounds_playing_next exactly those in
\* WaitingForStart, each with next_play in whole seconds, and in previewing
\* exactly those with is_preview; no name is in both of the first two.
C19_StatusContents ==
    [][Dequeues("GetStatus")
       => LET b == sender'[Len(sender')].body
              in_state(st) == {n \in DOMAIN sound_handles :
                                 sound_handles[n].state = st}
          IN  /\ sender'[Len(sender')].kind = "Status"
              /\ b.sounds_playing = in_state("Playing")
              /\ b.sounds_playing_next =
                   {<<n, WholeSeconds(sound_handles[n].next_play)>> :
                      n \in in_state("WaitingForStart")}
              /\ b.previewing = {n \in DOMAIN sound_handles :
                                   sound_handles[n].is_preview}
              /\ b.sounds_playing
                   \cap {p[1] : p \in b.sounds_playing_next} = {}]_vars

\* C19 witness: a Status names a sound that waits for its start with less
\* than a second to go
C19_Witness ==
    \E i \in DOMAIN sender :
        /\ sender[i].kind = "Status"
        /\ sender[i].body.sounds_playing_next = {<<"a", 0>>}
        /\ sender[i].body.sounds_playing = {}
        /\ "a" \in DOMAIN sound_handles
        /\ sound_handles["a"].next_play > 0

\* C20: the iteration of run that dequeues Quit sends no response and is the
\* loop's last; a loop that has ended never runs again and dequeues nothing.
C20_QuitEndsLoop ==
    [][/\ Dequeues("Quit") => (sender' = sender /\ pc' # "running")
       /\ pc # "running"
            => (pc' # "running" /\ Len(receiver') >= Len(receiver)
                /\ Len(sender') <= Len(sender))]_vars

\* C20 witness: the loop has stopped on Quit after it served commands
C20_Witness ==
    /\ pc = "stopped"
    /\ web_down
    /\ theme_loaded
    /\ receiver = << >>

\* C21: however often the library is opened over the same files, the table
\* sample holds exactly one row for each supported file and none else, and
\* every row has the id its path got first; the SamplesDB holds the rows.
C21_OpenIdempotent ==
    n_open > 0 =>
      LET paths == {f.path : f \in {g \in base_path :
                       /\ g.extension # None
                       /\ g.extension[1] \in SUPPORTED_AUDIO_FILES}}
      IN  /\ \A p \in paths : Cardinality({r \in sample : r.path = p}) = 1
          /\ \A r \in sample : r.path \in paths /\ first_id[r.path] = r.id
          /\ samples = Some(sample)

\* C21 witness: a library of several samples has been opened twice
C21_Witness ==
    /\ n_open = 2
    /\ Cardinality(sample) = 3
    /\ Cardinality(base_path) = 5

\* the header value "Bearer <token>" of the configured token
Exact == Some(<<"Bearer", Space>> \o token)

\* the middleware answers the request that has arrived
Answers(method) ==
    /\ request # None
    /\ request' = None
    /\ (request[1].method = "OPTIONS") = (method = "OPTIONS")

\* C22: a request that is not OPTIONS reaches its handler only with the
\* header value exactly "Bearer <token>"; any other request of that kind is
\* answered 403 and sends no command to the controller.
C22_BearerOnly ==
    [][Answers("") =>
         /\ http_response' = "handler" => request[1].authorization = Exact
         /\ request[1].authorization # Exact
              => (http_response' = "403" /\ receiver' = receiver)]_vars

\* C23: an OPTIONS request without the header Authorization is served.
C23_OptionsBypass ==
    [][(Answers("OPTIONS") /\ request[1].authorization = None)
         => http_response' = "200"]_vars

\* the transition table of the entity
Transitions ==
    { <<"Virgin", "WaitingForTrigger">>, <<"Virgin", "PrepareRun">>,
      <<"WaitingForTrigger", "WaitingForStart">>,
      <<"PrepareRun", "Starting">>, <<"PrepareRun", "WaitingForStart">>,
      <<"WaitingForStart", "Starting">>, <<"Starting", "Playing">>,
      <<"Playing", "Reset">>, <<"Playing", "Repeat">>,
      <<"Repeat", "WaitingForStart">>, <<"Repeat", "Virgin">>,
      <<"Repeat", "Loop">>, <<"Loop", "PrepareRun">>, <<"Loop", "Finished">>,
      <<"Finished", "Reset">>, <<"Finished", "Dead">>, <<"Reset", "Virgin">>,
      <<"Preview", "Reset">>, <<"Dead", "Dead">> }

\* the current entities are replaced by the pending ones in this step
Swapped == PendingAfterHandler # None /\ next_sound_handles' = None

\* C24: a call of update on an entity as it can be leaves its state or
\* changes it along one transition of the table; and over a step that keeps
\* the entities, an entity's state stays, or changes along one transition,
\* or is set to Preview by the PreviewSound of the step (and then taken on
\* to Reset by the update of the same iteration).
C24_TransitionTable ==
    /\ [](\A n \in DOMAIN sound_handles :
            \A delta \in 0 .. MaxDelay :
              \A o \in Update(sound_handles[n], backend, delta) :
                 \/ o.e.state = sound_handles[n].state
                 \/ <<sound_handles[n].state, o.e.state>> \in Transitions)
    /\ [][~Swapped =>
            /\ DOMAIN sound_handles' = DOMAIN sound_handles
            /\ \A n \in DOMAIN sound_handles :
                 \/ sound_handles'[n].state = sound_handles[n].state
                 \/ <<sound_handles[n].state, sound_handles'[n].state>>
                       \in Transitions
                 \/ /\ Dequeues("PreviewSound")
                    /\ Head(receiver).sound = n
                    /\ sound_handles'[n].state \in {"Preview", "Reset"}]_vars

\* C24 witness: a previewed entity that had played went from Preview to
\* Reset and on to Virgin, where its source is stopped
C24_Witness ==
    \E n \in DOMAIN sound_handles :
        /\ sound_handles[n].state = "Virgin"
        /\ sound_handles[n].is_preview
        /\ sound_handles[n].ever_played
        /\ sound_handles[n].source = 0

\* the preview path, state by state
PreviewNext ==
    [st \in {"Preview", "Reset", "Virgin", "PrepareRun"} |->
        CASE st = "Preview" -> "Reset"
          [] st = "Reset" -> "Virgin"
          [] st = "Virgin" -> "PrepareRun"
          [] st = "PrepareRun" -> "Starting"]

\* the controller dequeues a command in this step
DequeuesAny == pc = "running" /\ receiver # << >> /\ receiver' = Tail(receiver)

\* the PreviewSound of this step names the entity
Previews(n) == Dequeues("PreviewSound") /\ Head(receiver).sound = n

\* C25: PreviewSound on an existing sound, whatever its state, its trigger,
\* enabled and playing, leaves it previewed in Preview, or in Reset once the
\* iteration has updated it; a previewed entity in Preview, Reset, Virgin or
\* PrepareRun is updated in every tick, each update takes it one state on
\* along Preview, Reset, Virgin, PrepareRun, Starting without error, and no
\* step takes it anywhere else.
C25_PreviewPath ==
    /\ [](\A n \in DOMAIN sound_handles :
            LET e == sound_handles[n]
            IN  (e.is_preview /\ e.state \in DOMAIN PreviewNext)
                => /\ Updated(e, playing)
                   /\ \A delta \in 0 .. MaxDelay :
                        \A o \in Update(e, backend, delta) :
                           /\ ~o.err
                           /\ o.e.is_preview
                           /\ o.e.state = PreviewNext[e.state])
    /\ [][\A n \in DOMAIN sound_handles :
            (Previews(n) /\ ~Swapped)
            => /\ sound_handles'[n].is_preview
               /\ sound_handles'[n].state \in {"Preview", "Reset"}
               /\ pc' # "failed" => sound_handles'[n].state = "Reset"]_vars
    /\ [][\A n \in DOMAIN sound_handles :
            LET e == sound_handles[n]
            IN  (/\ e.is_preview /\ e.state \in DOMAIN PreviewNext
                 /\ ~Previews(n) /\ ~Swapped)
                => /\ sound_handles'[n].is_preview
                   /\ sound_handles'[n].state
                        \in {e.state, PreviewNext[e.state]}
                   /\ (DequeuesAny /\ pc' # "failed")
                        => sound_handles'[n].state = PreviewNext[e.state]]_vars

\* C25 witness: a disabled sound with a trigger, previewed while the theme
\* is not playing, is in Starting without having waited or played
C25_Witness ==
    \E n \in DOMAIN sound_handles :
        LET e == sound_handles[n]
        IN  /\ e.state = "Starting" /\ e.is_preview
            /\ e.sound.trigger /\ ~e.sound.enabled
            /\ ~playing
            /\ ~e.ever_played

\* the loop of this step's iteration does not update the entity: it is not
\* previewed, the PreviewSound of the step included, and the controller is
\* paused once the command is handled, or the sound is disabled
NotUpdated(n) ==
    /\ ~sound_handles[n].is_preview
    /\ ~Previews(n)
    /\ ~(playing' /\ sound_handles[n].sound.enabled)

\* the step is the mixer's: a source ends, nothing else changes
MixerStep ==
    /\ sound_handles' = sound_handles
    /\ backend'.pool = backend.pool
    /\ backend'.gain = backend.gain
    /\ receiver' = receiver
    /\ <<fade_status, fade_volume, fade_direction>>'
          = <<fade_status, fade_volume, fade_direction>>

\* the entity keeps its state, next_play, repeats, loops and source
SameRun(n) ==
    /\ n \in DOMAIN sound_handles'
    /\ sound_handles'[n].state = sound_handles[n].state
    /\ sound_handles'[n].next_play = sound_handles[n].next_play
    /\ sound_handles'[n].repeats = sound_handles[n].repeats
    /\ sound_handles'[n].loops = sound_handles[n].loops
    /\ sound_handles'[n].source = sound_handles[n].source
    /\ sound_handles'[n].n_plays = sound_handles[n].n_plays
    /\ sound_handles'[n].n_stops = sound_handles[n].n_stops

\* the source the entity holds is held on and is in the state it was in,
\* but for the pause of a Pause or Play command and for the mixer
SourceUntouched(n) ==
    LET id == sound_handles[n].source
    IN  id # 0 =>
          /\ id \notin backend'.pool
          /\ \/ backend'.st[id] = backend.st[id]
             \/ /\ Dequeues("Pause") \/ Dequeues("Play")
                /\ backend'.st[id] = "Paused"
             \/ /\ MixerStep
                /\ backend.st[id] = "Playing" /\ backend'.st[id] = "Stopped"

\* the states every update leaves
Moving == {"Virgin", "Preview", "Reset", "PrepareRun", "Repeat", "Loop",
           "Finished"}

TriggerNames == {"a", "b", "none"}

\* C27: on the controller as it can be, Trigger on a known sound answers
\* Success and flips is_triggered of that entity and nothing else, so that a
\* second Trigger right after restores the controller; the update after one
\* Trigger takes an entity waiting in WaitingForTrigger to WaitingForStart
\* with is_triggered cleared; Trigger on an unknown name answers Error and
\* leaves the controller as it is. Over the iteration that handles the
\* Trigger: the flag is flipped on an entity the loop does not update, and
\* an updated entity in WaitingForTrigger is in WaitingForStart after it.
C27_TriggerToggle ==
    /\ [](\A n \in TriggerNames :
            LET r == handle_trigger(Self, n)
            IN  IF n \in DOMAIN sound_handles
                THEN /\ r.sent = << Sent("Success") >>
                     /\ r.self = [Self EXCEPT
                                    !.sound_handles[n].is_triggered = ~@]
                     /\ handle_trigger(r.self, n).self = Self
                     /\ (/\ sound_handles[n].state = "WaitingForTrigger"
                         /\ ~sound_handles[n].is_triggered)
                        => \A delta \in 0 .. MaxDelay :
                             \A o \in Update(r.self.sound_handles[n],
                                             backend, delta) :
                                /\ o.e.state = "WaitingForStart"
                                /\ ~o.e.is_triggered
                ELSE r.sent = << Sent("Error") >> /\ r.self = Self)
    /\ [][Dequeues("Trigger") =>
            LET n == Head(receiver).sound
            IN  IF n \in DOMAIN sound_handles
                THEN /\ sender'[Len(sender')].kind = "Success"
                     /\ (NotUpdated(n) /\ ~Swapped)
                          => /\ SameRun(n)
                             /\ sound_handles'[n].is_triggered
                                  = ~sound_handles[n].is_triggered
                     /\ (/\ ~NotUpdated(n) /\ ~Swapped /\ pc' # "failed"
                         /\ sound_handles[n].state = "WaitingForTrigger"
                         /\ ~sound_handles[n].is_triggered)
                          => /\ sound_handles'[n].state = "WaitingForStart"
                             /\ ~sound_handles'[n].is_triggered
                ELSE /\ sender'[Len(sender')].kind = "Error"
                     /\ ~Swapped =>
                          \A m \in DOMAIN sound_handles :
                             sound_handles'[m].is_triggered
                               = sound_handles[m].is_triggered]_vars

\* C27 witness: a Trigger was answered Success and the iteration took the
\* entity, which waited for it, to WaitingForStart with the flag cleared
C27_Witness ==
    /\ sender # << >> /\ sender[1].kind = "Success"
    /\ \E n \in DOMAIN sound_handles :
          /\ sound_handles[n].sound.trigger
          /\ ~sound_handles[n].is_preview
          /\ ~sound_handles[n].is_triggered
          /\ sound_handles[n].state = "WaitingForStart"

\* C28: at every state the fade volume is at least 0 and at most
\* master_volume.
C28_FadeVolumeInRange == 0 <= fade_volume /\ fade_volume <= master_volume

\* C29: the iteration that answers Success to a LoadTheme whose files all
\* load leaves a fade-out under way with the volume below what it was (the
\* master volume when no fade was running), or has just ended the fade-out
\* at 0; also when a fade-in was running.
C29_FadeOutNextTick ==
    [][(/\ Dequeues("LoadTheme")
        /\ Loadable(Themes[Head(receiver).id])
        /\ sender'[Len(sender')].kind = "Success"
        /\ pc' = "running")
       => \/ /\ fade_status' /\ fade_direction' = "Out"
             /\ fade_volume' < (IF fade_status THEN fade_volume
                                ELSE master_volume)
          \/ /\ fade_status' /\ fade_direction' = "In" /\ fade_volume' = 0
             /\ (~fade_status \/ fade_direction = "Out")]_vars

\* the names of the sounds of the theme of the given name
SoundsOf(name) ==
    UNION {{Themes[i].sounds[j].name : j \in DOMAIN Themes[i].sounds}
           : i \in {k \in ThemeIds : Themes[k].name = name}}

\* C30: every Status response reports sounds of the theme it names, and
\* none when it names no theme.
C30_StatusOneTheme ==
    \A i \in DOMAIN sender :
        sender[i].kind = "Status" =>
          LET b == sender[i].body
              reported == b.sounds_playing \cup b.previewing
                            \cup {p[1] : p \in b.sounds_playing_next}
          IN  /\ b.theme_loaded = (b.theme # None)
              /\ reported \subseteq
                   (IF b.theme = None THEN {} ELSE SoundsOf(b.theme[1]))


\* C31: an entity holds a pool source only between its Starting transition
\* and its next Reset or Loop transition: an entity in Virgin,
\* WaitingForTrigger, PrepareRun, Finished or Dead holds no source, an
\* entity that has just finished a preview run included.
C31_SourceOnlyWhileRunning ==
    \A n \in DOMAIN sound_handles :
       sound_handles[n].state \in {"Virgin", "WaitingForTrigger",
                                   "PrepareRun", "Finished", "Dead"}
          => sound_handles[n].source = 0


\* C32: a LoadTheme that fails, for a missing sample or for a file the
\* backend cannot load, on the first sound or on a later one, leaves the
\* controller as it was: the iteration that handles it changes the current
\* and pending entities, the theme name, theme_loaded, playing and the fade
\* as an iteration that received no command would.
C32_FailedLoadKeepsState ==
    [][(Dequeues("LoadTheme") /\ ~Loadable(Themes[Head(receiver).id]))
       => \E o \in LoopBody(Self, FALSE) : Becomes(o)]_vars

\* C32 witness: a LoadTheme was answered Error while a theme is loaded and
\* plays
C32_Witness ==
    /\ theme = Some("loops") /\ playing
    /\ \E n \in DOMAIN sound_handles : sound_handles[n].state = "Playing"
    /\ sender # << >> /\ sender[Len(sender)].kind = "Error"

\* what the update loop can leave of the current entities, iterating them
\* in the given order
OutcomesOf(order, delta) ==
    UpdateAll(order, sound_handles, backend, delta, playing)

\* the entity, of its source only whether it holds one: the sources of the
\* pool are alike
View(e) == [e EXCEPT !.source = IF @ = 0 THEN 0 ELSE 1]

\* what the update of the entity alone can leave of it
Alone(n, delta) ==
    IF Updated(sound_handles[n], playing)
    THEN {View(o.e) : o \in Update(sound_handles[n], backend, delta)}
    ELSE {View(sound_handles[n])}

\* in no order of iteration an update of this tick finds the pool empty
NoStarvation ==
    \A delta \in 0 .. MaxDelay : \A order \in Orders(DOMAIN sound_handles) :
       \A u \in OutcomesOf(order, delta) : ~u.err

C34_DeadStaysDead ==
    /\ [](\A n \in DOMAIN sound_handles :
             sound_handles[n].state = "Dead"
             => /\ sound_handles[n].source = 0
                /\ \A delta \in 0 .. MaxDelay :
                      Update(sound_handles[n], backend, delta)
                         = {Outcome(sound_handles[n], backend, FALSE)})
    /\ [][\A n \in DOMAIN sound_handles :
             (sound_handles[n].state = "Dead" /\ ~Swapped)
             => /\ n \in DOMAIN sound_handles'
                /\ IF Previews(n)
                   THEN sound_handles'[n].state \in {"Preview", "Reset"}
                   ELSE /\ sound_handles'[n].state = "Dead"
                        /\ sound_handles'[n].source = 0
                        /\ sound_handles'[n].n_plays = sound_handles[n].n_plays
                        /\ sound_handles'[n].n_stops = sound_handles[n].n_stops
          ]_vars

\* C34 witness: the sound with loop_count (n, n) is Dead, played and
\* stopped n + 1 times, and the controller is about to receive the
\* PreviewSound that takes it out of Dead
C34_Witness ==
    \E n \in DOMAIN sound_handles :
       LET e == sound_handles[n]
       IN  /\ e.sound.loop_count = <<MaxCount, MaxCount>>
           /\ e.state = "Dead" /\ ~e.is_preview
           /\ e.n_plays = MaxCount + 1 /\ e.n_stops = MaxCount + 1
           /\ Receives("PreviewSound") /\ Head(receiver).sound = n

\* C35: an entity whose sound has a trigger is never Dead: Finished sends
\* it to Reset, Reset to Virgin and Virgin, when it is not previewed, to
\* WaitingForTrigger, where a Trigger starts it again; an entity that is
\* Dead has a sound without trigger and without loop_forever.
C35_TriggeredNeverDead ==
    \A n \in DOMAIN sound_handles :
       LET e == sound_handles[n]
           next(s) == {o.e.state : o \in UNION {Update([e EXCEPT !.state = s],
                                                       backend, delta)
                                                : delta \in 0 .. MaxDelay}}
       IN  /\ e.state = "Dead" => (~e.sound.trigger /\ ~e.sound.loop_forever)
           /\ (e.sound.trigger /\ e.state = "Finished")
                 => next("Finished") = {"Reset"}
           /\ (e.sound.trigger /\ e.state = "Reset")
                 => next("Reset") = {"Virgin"}
           /\ (e.sound.trigger /\ e.state = "Virgin" /\ ~e.is_preview)
                 => next("Virgin") = {"WaitingForTrigger"}
           /\ (e.sound.trigger /\ e.state = "WaitingForTrigger"
                 /\ e.is_triggered)
                 => next("WaitingForTrigger") = {"WaitingForStart"}

\* C35 witness: a sound with a trigger has played, was stopped by Loop with
\* its loops exhausted and went from Finished to Reset
C35_Witness ==
    \E n \in DOMAIN sound_handles :
       LET e == sound_handles[n]
       IN  /\ e.sound.trigger /\ ~e.is_preview
           /\ e.state = "Reset" /\ e.ever_played
           /\ e.source = 0 /\ e.n_stops > 0

\* the current entities that hold the source
Holders(id) == {n \in DOMAIN sound_handles : sound_handles[n].source = id}

C37_SwapFindsPending ==
    /\ []((fade_status /\ fade_direction = "Out")
             => next_sound_handles # None)
    /\ [](pc # "panicked")
    /\ [][(pc = "running" /\ PendingAfterHandler = None)
            => ~(fade_direction' = "In" /\ fade_volume' = 0
                   /\ fade_volume # 0)]_vars

\* C37 witness: the themes have just been swapped while master_volume is 0
\* or below
C37_Witness ==
    /\ master_volume <= 0
    /\ fade_status /\ fade_direction = "In" /\ fade_volume = 0
    /\ next_sound_handles = None
    /\ theme # None /\ sound_handles # EmptyMap
    /\ pc = "running"

\* C38: if ticks keep running, no backend call fails and no further
\* LoadTheme or SetVolume is issued, then after a LoadTheme answered Success
\* the pending theme is eventually installed and the fade eventually
\* becomes inactive: whenever there are pending entities or the fade is
\* active, later there are no pending entities and the fade is inactive,
\* unless by then the loop has ended, on Quit or on the error of a backend
\* call, or the controller receives another LoadTheme or SetVolume.
C38_FadeCompletes ==
    (pc = "running" /\ (next_sound_handles # None \/ fade_status))
       ~> \/ next_sound_handles = None /\ ~fade_status
          \/ pc \in {"stopped", "failed"}
          \/ Receives("LoadTheme") \/ Receives("SetVolume")

\* C38 witness: a loaded theme is installed and its fade-in has ended
C38_Witness ==
    /\ pc = "running"
    /\ theme # None /\ sound_handles # EmptyMap
    /\ next_sound_handles = None
    /\ ~fade_status /\ fade_direction = "In"
    /\ fade_volume >= master_volume

\* C39: Play is idempotent: over the iteration that handles a Play while
\* the controller is already playing, playing stays true and an entity in
\* Playing whose source plays is still in Playing, its source still
\* playing: the command drives no entity to Repeat.
C39_PlayIdempotent ==
    [][Dequeues("Play") /\ theme_loaded /\ playing
       => /\ playing'
          /\ \A n \in Kept :
                (/\ sound_handles[n].state = "Playing"
                 /\ sound_handles[n].source # 0
                 /\ backend.st[sound_handles[n].source] = "Playing")
                => /\ sound_handles'[n].state = "Playing"
                   /\ sound_handles'[n].source = sound_handles[n].source
                   /\ backend'.st[sound_handles[n].source] = "Playing"]_vars

\* C40: from a LoadTheme answered Success until the swap at the end of the
\* fade-out, PreviewSound and Trigger resolve the name among the entities of
\* the previous theme only: a name that only the pending theme has gets
\* Error, and the pending entities are never updated, triggered or
\* previewed: they are as they were created (Virgin, is_triggered and
\* is_preview false) while pending and at the end of the step that installs
\* them.
C40_PendingUntouched ==
    /\ [](next_sound_handles # None
            => \A n \in DOMAIN next_sound_handles[1] :
                  LET e == next_sound_handles[1][n]
                  IN  /\ e = NewEntity(e.sound)
                      /\ e.state = "Virgin"
                      /\ ~e.is_triggered /\ ~e.is_preview)
    /\ [][(/\ Dequeues("PreviewSound") \/ Dequeues("Trigger")
           /\ Head(receiver).sound \notin DOMAIN sound_handles)
          => /\ Len(sender') = Len(sender) + 1
             /\ sender'[Len(sender')].kind = "Error"]_vars
    /\ [][(pc = "running" /\ next_sound_handles # None
             /\ ~Dequeues("LoadTheme"))
          => \/ next_sound_handles' = next_sound_handles
             \/ /\ next_sound_handles' = None
                /\ pc' = "running" => sound_handles' = next_sound_handles[1]
         ]_vars

\* C40 witness: during the fade-out a PreviewSound or Trigger that names a
\* sound of the pending theme only was answered Error, beside the entities
\* of the previous theme
C40_Witness ==
    /\ next_sound_handles # None
    /\ "b" \in DOMAIN next_sound_handles[1]
    /\ DOMAIN sound_handles = {"a"}
    /\ fade_status /\ fade_direction = "Out"
    /\ sender # << >> /\ sender[Len(sender)].kind = "Error"

====
